---- MODULE Spec2Model ----
(***************************************************************************)
(* Model of the alignment and diff-classification engine of coco21.py      *)
(* (and of the helpers it shares with coco9.py).                           *)
(*                                                                         *)
(* Cell values are tagged records: NaN (an empty cell), None (Python's     *)
(* None), a string (a sequence of one-character strings), an int or a      *)
(* float.  A text such as "A_1" is written <<"A","_","1">> so that strip,  *)
(* split and the lexical order can be computed character by character.     *)
(***************************************************************************)
EXTENDS Integers, Sequences, FiniteSets, TLC

VARIABLES
    pc,               \* position of main(): start, parsed, status, loop, done, error
    df_t1, df_t2,     \* the two tables, sequences of rows (column name -> value)
    all_noels,        \* sorted list of NoelFirst keys
    second_map,       \* NoelFirst -> list of NoelSecond of Table2
    k,                \* position of the for-loop over all_noels
    sub_t1, sub_t2,   \* rows of the current key, as source row numbers
    max_count,
    is_many_to_many,
    i,                \* position of the inner for-loop
    comparison_rows,  \* the output rows
    pairs,            \* which source rows each output row was built from
    sp_pc, sp_val, sp_out,          \* split_noel applied to one value
    bk_pc, bk_row1, bk_row2,        \* build_block2 applied to one pair
    bk_out, bk_scan,                \* its result, and the record of its column scan
    st_pc, st_df,                   \* the status classifiers applied to the rows of a table
    st_clock,                       \* the clock reading of each row classified so far
    st_status, st_inactive,         \* get_activity_status and is_inactive of those rows
    ca_pc, ca_row1, ca_row2, ca_out \* BLOC A of coco9 built for one pair

vars == <<pc, df_t1, df_t2, all_noels, second_map, k, sub_t1, sub_t2, max_count,
          is_many_to_many, i, comparison_rows, pairs,
          sp_pc, sp_val, sp_out, bk_pc, bk_row1, bk_row2, bk_out, bk_scan,
          st_pc, st_df, st_clock, st_status, st_inactive,
          ca_pc, ca_row1, ca_row2, ca_out>>

mainVars == <<pc, df_t1, df_t2, all_noels, second_map, k, sub_t1, sub_t2, max_count,
              is_many_to_many, i, comparison_rows, pairs>>
splitVars == <<sp_pc, sp_val, sp_out>>
blockVars == <<bk_pc, bk_row1, bk_row2, bk_out, bk_scan>>
statusVars == <<st_pc, st_df, st_clock, st_status, st_inactive>>
coreVars == <<ca_pc, ca_row1, ca_row2, ca_out>>

-----------------------------------------------------------------------------
(* Bounds *)

\* longest raw identifier given to split_noel
MaxLen == 4
\* most rows of one table
MaxRows == 2
\* how many of the shared columns of BLOC 2 the rows carry
NumSharedCols == 3

-----------------------------------------------------------------------------
(* Values *)

NaN == [t |-> "nan"]
None == [t |-> "none"]
Str(s) == [t |-> "str", s |-> s]
IntVal(n) == [t |-> "int", n |-> n]
FloatVal(n) == [t |-> "float", n |-> n]

\* pd.isna / pd.notna on a scalar
isna(x) == x.t \in {"nan", "none"}
notna(x) == ~isna(x)

\* the characters the model's texts are made of, and their code points
Ord(c) ==
    CASE c = " " -> 32
      [] c = "." -> 46
      [] c = "0" -> 48
      [] c = "1" -> 49
      [] c = "2" -> 50
      [] c = "A" -> 65
      [] c = "B" -> 66
      [] c = "_" -> 95
      [] c = "x" -> 120
      [] c = "y" -> 121

Digit(n) ==
    CASE n = 0 -> "0"
      [] n = 1 -> "1"
      [] n = 2 -> "2"

\* str(x) of a non-missing value
PyStr(x) ==
    CASE x.t = "str" -> x.s
      [] x.t = "int" -> <<Digit(x.n)>>
      [] x.t = "float" -> <<Digit(x.n), ".", "0">>
      [] x.t = "nan" -> <<"n", "a", "n">>
      [] x.t = "none" -> <<"N", "o", "n", "e">>

IsSpace(c) == c = " "

RECURSIVE LStrip(_)
LStrip(s) ==
    IF s = <<>> THEN <<>>
    ELSE IF IsSpace(Head(s)) THEN LStrip(Tail(s)) ELSE s

RECURSIVE RStrip(_)
RStrip(s) ==
    IF s = <<>> THEN <<>>
    ELSE IF IsSpace(s[Len(s)]) THEN RStrip(SubSeq(s, 1, Len(s) - 1)) ELSE s

\* str.strip()
Strip(s) == RStrip(LStrip(s))

\* "_" in s
HasSep(s) == \E j \in 1..Len(s) : s[j] = "_"

\* FirstSep taking the last separator instead (rsplit)
LastSep(s) == CHOOSE j \in 1..Len(s) : s[j] = "_" /\ \A h \in (j + 1)..Len(s) : s[h] # "_"

\* position of the first "_" of s
FirstSep(s) == CHOOSE j \in 1..Len(s) : s[j] = "_" /\ \A h \in 1..(j - 1) : s[h] # "_"

\* SplitAt leaving the separator at the end of the left part
SplitAtKeepSep(s, j) == <<SubSeq(s, 1, j), SubSeq(s, j + 1, Len(s))>>

\* s.split("_", 1) with the separator at position j
SplitAt(s, j) == <<SubSeq(s, 1, j - 1), SubSeq(s, j + 1, Len(s))>>

\* split_noel(val): (NoelFirst, NoelSecond)
split_noel(val) ==
    IF isna(val) THEN <<None, None>>
    ELSE LET s == Strip(PyStr(val)) IN
         IF HasSep(s)
         THEN LET lr == SplitAt(s, FirstSep(s)) IN <<Str(lr[1]), Str(lr[2])>>
         ELSE <<Str(s), None>>

-----------------------------------------------------------------------------
(* split_noel on every raw identifier of at most MaxLen characters *)

SplitAlphabet == {" ", "_", "A", "0"}

\* the texts of at most n characters of S
SeqsUpTo(S, n) == UNION {[1..m -> S] : m \in 0..n}

RawIdentifiers ==
    {NaN, IntVal(1), FloatVal(1)} \cup {Str(s) : s \in SeqsUpTo(SplitAlphabet, MaxLen)}

SplitInit ==
    /\ sp_pc = "call"
    /\ sp_val \in RawIdentifiers
    /\ sp_out = <<None, None>>

\* one call of split_noel
SplitCall ==
    /\ sp_pc = "call"
    /\ sp_out' = split_noel(sp_val)
    /\ sp_pc' = "returned"
    /\ UNCHANGED sp_val

-----------------------------------------------------------------------------
(* Rows and dicts *)

\* row1 / row2 of a pair whose side is absent (Python's None)
NoRow == [absent |-> TRUE]

\* row.get(c, default)
Get(row, c, default) == IF c \in DOMAIN row THEN row[c] ELSE default

\* A dict is the sequence of its items <<key, value>>, in insertion order.
HasKey(d, key) == \E j \in 1..Len(d) : d[j][1] = key

\* d[key]
DictGet(d, key) == d[CHOOSE j \in 1..Len(d) : d[j][1] = key][2]

\* d[key] = val: an existing key keeps its place
DictSet(d, key, val) ==
    IF HasKey(d, key)
    THEN [j \in 1..Len(d) |-> IF d[j][1] = key THEN <<key, val>> ELSE d[j]]
    ELSE Append(d, <<key, val>>)

\* {**d, **e}: the items of d, with e's value where e has the key, then the
\* items of e whose key d does not have
DictMerge(d, e) ==
    [j \in 1..Len(d) |-> IF HasKey(e, d[j][1]) THEN <<d[j][1], DictGet(e, d[j][1])>> ELSE d[j]]
    \o SelectSeq(e, LAMBDA item : ~HasKey(d, item[1]))

\* the keys of a dict, in order
DictKeys(d) == [j \in 1..Len(d) |-> d[j][1]]

-----------------------------------------------------------------------------
(* Lexical order of texts and sorted() *)

\* a < b of two Python strings (code point order)
RECURSIVE StrLess(_, _)
StrLess(a, b) ==
    IF b = <<>> THEN FALSE
    ELSE IF a = <<>> THEN TRUE
    ELSE IF Ord(Head(a)) < Ord(Head(b)) THEN TRUE
    ELSE IF Ord(Head(a)) > Ord(Head(b)) THEN FALSE
    ELSE StrLess(Tail(a), Tail(b))

\* sorted in descending order
RECURSIVE sortedDescending(_)
sortedDescending(S) ==
    IF S = {} THEN <<>>
    ELSE LET m == CHOOSE x \in S : \A y \in S : x = y \/ StrLess(y.s, x.s) IN
         <<m>> \o sortedDescending(S \ {m})

\* sorted(S) of a set of string values
RECURSIVE sorted(_)
sorted(S) ==
    IF S = {} THEN <<>>
    ELSE LET m == CHOOSE x \in S : \A y \in S : x = y \/ StrLess(x.s, y.s) IN
         <<m>> \o sorted(S \ {m})

\* set(df["NoelFirst"].dropna())
NoelFirstSet(df) == {df[r]["NoelFirst"] : r \in {q \in 1..Len(df) : notna(df[q]["NoelFirst"])}}

\* the numbers of the first n rows of df whose NoelFirst is noel_first, in row order
RECURSIVE RowsOfKey(_, _, _)
RowsOfKey(df, noel_first, n) ==
    IF n = 0 THEN <<>>
    ELSE LET before == RowsOfKey(df, noel_first, n - 1) IN
         IF df[n]["NoelFirst"] = noel_first THEN Append(before, n) ELSE before

\* SubTable with the rows of the group in reverse order
SubTableReversed(df, noel_first) ==
    LET rows == RowsOfKey(df, noel_first, Len(df)) IN
    [j \in 1..Len(rows) |-> rows[Len(rows) + 1 - j]]

\* df[df["NoelFirst"] == noel_first].reset_index(drop=True), as source row numbers
SubTable(df, noel_first) == RowsOfKey(df, noel_first, Len(df))

\* df_t2.groupby("NoelFirst")["NoelSecond"].apply(list).to_dict()
SecondMap(df) ==
    [key \in NoelFirstSet(df) |->
        LET rows == SubTable(df, key) IN [j \in 1..Len(rows) |-> df[rows[j]]["NoelSecond"]]]

\* len(second_map.get(noel_first, [])) > 1
IsManyToMany(smap, noel_first) ==
    Len(IF noel_first \in DOMAIN smap THEN smap[noel_first] ELSE <<>>) > 1

\* Max taking the shorter side (pairing as zip does)
MaxAsMin(a, b) == IF a >= b THEN b ELSE a

Max(a, b) == IF a >= b THEN a ELSE b

-----------------------------------------------------------------------------
(* Status *)

StatusVal(v) == [t |-> "status", v |-> v]

\* the instants pd.Timestamp.now() can return, and the epoch before them
Times == {1, 2}
Epoch == 0

\* a datetime cell, at instant d
DateVal(d) == [t |-> "date", d |-> d]

\* pd.to_datetime(x): a timestamp, NaT, or an exception.  A number counts
\* nanoseconds from the epoch; of the model's texts only "1970" is a date.
ToDatetime(x) ==
    CASE x.t = "date" -> [k |-> "ts", d |-> x.d]
      [] x.t \in {"int", "float"} -> [k |-> "ts", d |-> Epoch]
      [] x.t = "str" -> IF x.s = <<>> THEN [k |-> "nat"]
                        ELSE IF x.s = <<"1", "9", "7", "0">> THEN [k |-> "ts", d |-> Epoch]
                        ELSE [k |-> "raise"]
      [] x.t \in {"nan", "none"} -> [k |-> "nat"]
      [] OTHER -> [k |-> "raise"]

\* str.lower(), character by character
Lower(c) ==
    CASE c = "A" -> "a"
      [] c = "B" -> "b"
      [] c = "C" -> "c"
      [] c = "D" -> "d"
      [] c = "E" -> "e"
      [] c = "L" -> "l"
      [] c = "O" -> "o"
      [] c = "S" -> "s"
      [] OTHER -> c

\* sub in s
Contains(s, sub) ==
    \E j \in 1..(Len(s) - Len(sub) + 1) : SubSeq(s, j, j + Len(sub) - 1) = sub

\* get_activity_status with a date equal to the clock reading counted as past
get_activity_status_le(row, now) ==
    LET dayt == [j \in 1..Len(PyStr(Get(row, "Daytona", Str(<<>>)))) |->
                    Lower(PyStr(Get(row, "Daytona", Str(<<>>)))[j])]
        elast == Get(row, "Elastic Daytona", Str(<<>>))
    IN  IF Contains(dayt, <<"c", "l", "o", "s", "e">>) THEN "Inactive"
        ELSE IF notna(elast) /\ ToDatetime(elast).k = "ts" /\ ToDatetime(elast).d <= now
             THEN "Inactive"
        ELSE "Active"

\* get_activity_status(row), the clock reading now
get_activity_status(row, now) ==
    LET dayt == [j \in 1..Len(PyStr(Get(row, "Daytona", Str(<<>>)))) |->
                    Lower(PyStr(Get(row, "Daytona", Str(<<>>)))[j])]
        elast == Get(row, "Elastic Daytona", Str(<<>>))
    IN  IF Contains(dayt, <<"c", "l", "o", "s", "e">>) THEN "Inactive"
        ELSE IF notna(elast) /\ ToDatetime(elast).k = "ts" /\ ToDatetime(elast).d < now
             THEN "Inactive"
        ELSE "Active"

\* is_inactive(daytona_val, elastic_val) of coco9, the clock reading now
is_inactive(daytona_val, elastic_val, now) ==
    IF daytona_val.t = "str"
       /\ Contains([j \in 1..Len(daytona_val.s) |-> Lower(daytona_val.s[j])],
                   <<"c", "l", "o", "s", "e", "d">>)
    THEN TRUE
    ELSE ToDatetime(elastic_val).k = "ts" /\ ToDatetime(elastic_val).d < now

-----------------------------------------------------------------------------
(* Text of comments *)

\* a text of the model as a string
RECURSIVE ToText(_)
ToText(s) == IF s = <<>> THEN "" ELSE Head(s) \o ToText(Tail(s))

\* what an f-string prints for a value
Fmt(x) == IF x.t = "status" THEN x.v ELSE ToText(PyStr(x))

\* ", ".join(parts)
RECURSIVE Join(_)
Join(parts) ==
    IF parts = <<>> THEN ""
    ELSE IF Len(parts) = 1 THEN parts[1]
    ELSE parts[1] \o ", " \o Join(Tail(parts))

-----------------------------------------------------------------------------
(* BLOC 1 *)

\* Comment2B1 that looks at the sides before the flag
Comment2B1PresenceFirst(row1, row2, many) ==
    IF row1 = NoRow /\ row2 # NoRow THEN "missing in Table1"
    ELSE IF row2 = NoRow /\ row1 # NoRow THEN "missing in Table2"
    ELSE IF many THEN "many-to-many"
    ELSE "one-one"

\* Comment2_B1 of build_block1
Comment2B1(row1, row2, many) ==
    IF many THEN "many-to-many"
    ELSE IF row1 = NoRow /\ row2 # NoRow THEN "missing in Table1"
    ELSE IF row2 = NoRow /\ row1 # NoRow THEN "missing in Table2"
    ELSE "one-one"

\* the four columns build_block1 takes from one side
Block1Side(row) ==
    <<IF row # NoRow THEN row["Noel"] ELSE NaN,
      IF row # NoRow THEN Get(row, "Daytona", NaN) ELSE NaN,
      IF row # NoRow THEN Get(row, "Elastic Daytona", NaN) ELSE NaN,
      IF row # NoRow THEN Get(row, "Status", NaN) ELSE NaN>>

build_block1(row1, row2, many) ==
    LET t1 == Block1Side(row1)
        t2 == Block1Side(row2)
        c1_parts == (IF notna(t1[4]) THEN <<"Table1 " \o Fmt(t1[4])>> ELSE <<>>)
                    \o (IF notna(t2[4]) THEN <<"Table2 " \o Fmt(t2[4])>> ELSE <<>>)
    IN  << <<"BLOC 1", None>>,
           <<"Table1_Noel", t1[1]>>,
           <<"Table1_Daytona", t1[2]>>,
           <<"Table1_Elastic Daytona", t1[3]>>,
           <<"Table1_Status", t1[4]>>,
           <<"Table2_Noel", t2[1]>>,
           <<"Table2_Daytona", t2[2]>>,
           <<"Table2_Elastic Daytona", t2[3]>>,
           <<"Table2_Status", t2[4]>>,
           <<"Comment1_B1", Join(c1_parts)>>,
           <<"Comment2_B1", Comment2B1(row1, row2, many)>> >>

-----------------------------------------------------------------------------
(* BLOC 2 *)

shared_cols ==
    <<"Noel", "Daytona", "No Thing", "Pizza", "Pizza No Thing",
      "Thing Noel", "Pizza Coco Daytona", "Sun Daytona", "Elastic Daytona",
      "Hero Rome", "Coco Copo Opa Noel", "Coco Coco Opa Elastic Noel">>

\* safe_str without the strip
safe_str_unstripped(x) == IF isna(x) THEN <<>> ELSE PyStr(x)

\* safe_str(x)
safe_str(x) == IF isna(x) THEN <<>> ELSE Strip(PyStr(x))

\* which branch of the column scan of build_block2 a pair of values takes
FieldOutcome(v1, v2) ==
    IF isna(v1) /\ notna(v2) THEN "MissingInA"
    ELSE IF notna(v1) /\ isna(v2) THEN "MissingInB"
    ELSE IF safe_str(v1) # safe_str(v2) THEN "Mismatch"
    ELSE "NoDiff"

\* what that branch appends to diff_cols
DiffEntry(c, v1, v2) ==
    LET o == FieldOutcome(v1, v2) IN
    IF o = "MissingInA" THEN <<c \o " [T1 missing, T2 present]">>
    ELSE IF o = "MissingInB" THEN <<c \o " [T1 present, T2 missing]">>
    ELSE IF o = "Mismatch"
         THEN <<c \o " [T1=" \o ToText(safe_str(v1)) \o ", T2=" \o ToText(safe_str(v2)) \o "]">>
    ELSE <<>>

\* the values build_block2 puts in the Table1_ / Table2_ columns
Block2Val(row, c) == IF row # NoRow THEN Get(row, c, NaN) ELSE NaN

\* the scan of the columns after Noel: one record per column, in order
ColumnScan(row1, row2) ==
    [j \in 1..(Len(shared_cols) - 1) |->
        LET c == shared_cols[j + 1] IN
        [col |-> c,
         outcome |-> FieldOutcome(Block2Val(row1, c), Block2Val(row2, c)),
         entry |-> DiffEntry(c, Block2Val(row1, c), Block2Val(row2, c))]]

\* diff_cols with the entries in the reverse of the scan order
DiffColsReversed(row1, row2) ==
    LET hits == SelectSeq(ColumnScan(row1, row2), LAMBDA r : r.entry # <<>>) IN
    [j \in 1..Len(hits) |-> hits[Len(hits) + 1 - j].entry[1]]

\* diff_cols at the end of the scan
DiffCols(row1, row2) ==
    LET hits == SelectSeq(ColumnScan(row1, row2), LAMBDA r : r.entry # <<>>) IN
    [j \in 1..Len(hits) |-> hits[j].entry[1]]

\* MismatchFlag raised by differing values only, not by a value missing on one side
MismatchFlagDifferOnly(row1, row2) ==
    LET scan == ColumnScan(row1, row2) IN \E j \in 1..Len(scan) : scan[j].outcome = "Mismatch"

\* mismatch_flag at the end of the scan
MismatchFlag(row1, row2) ==
    LET scan == ColumnScan(row1, row2) IN \E j \in 1..Len(scan) : scan[j].outcome # "NoDiff"

\* Comment1_B2 with "Both present" for a pair without a Noel on side B
Comment1B2BothWhenOneSided(noel_t1, noel_t2) ==
    IF isna(noel_t1) /\ notna(noel_t2) THEN "Missing in Table1"
    ELSE IF isna(noel_t1) /\ isna(noel_t2) THEN "No Noel in both?"
    ELSE "Both present"

\* Comment1_B2
Comment1B2(noel_t1, noel_t2) ==
    IF isna(noel_t1) /\ notna(noel_t2) THEN "Missing in Table1"
    ELSE IF notna(noel_t1) /\ isna(noel_t2) THEN "Missing in Table2"
    ELSE IF isna(noel_t1) /\ isna(noel_t2) THEN "No Noel in both?"
    ELSE "Both present"

\* <<Comment2_B2, Comment3_B2>> with the gate closed only when Noel is missing on both sides
Comment23B2GateBoth(row1, row2) ==
    IF isna(Block2Val(row1, "Noel")) /\ isna(Block2Val(row2, "Noel"))
    THEN <<"N/A", "N/A">>
    ELSE IF MismatchFlag(row1, row2)
         THEN LET diff_cols == DiffCols(row1, row2) IN
              <<"shared dimensions GAP",
                IF diff_cols # <<>>
                THEN "Diff columns: " \o Join(diff_cols)
                ELSE "Diff columns: ???">>
    ELSE <<"shared dimensions MATCH", "No differences">>

\* <<Comment2_B2, Comment3_B2>>
Comment23B2(row1, row2) ==
    IF isna(Block2Val(row1, "Noel")) \/ isna(Block2Val(row2, "Noel"))
    THEN <<"N/A", "N/A">>
    ELSE IF MismatchFlag(row1, row2)
         THEN LET diff_cols == DiffCols(row1, row2) IN
              <<"shared dimensions GAP",
                IF diff_cols # <<>>
                THEN "Diff columns: " \o Join(diff_cols)
                ELSE "Diff columns: ???">>
    ELSE <<"shared dimensions MATCH", "No differences">>

build_block2(row1, row2) ==
    <<<<"BLOC 2", None>>>>
    \o [j \in 1..Len(shared_cols) |->
            <<"Table1_" \o shared_cols[j], Block2Val(row1, shared_cols[j])>>]
    \o [j \in 1..Len(shared_cols) |->
            <<"Table2_" \o shared_cols[j], Block2Val(row2, shared_cols[j])>>]
    \o LET c23 == Comment23B2(row1, row2) IN
       << <<"Comment1_B2", Comment1B2(Block2Val(row1, "Noel"), Block2Val(row2, "Noel"))>>,
          <<"Comment2_B2", c23[1]>>,
          <<"Comment3_B2", c23[2]>> >>

-----------------------------------------------------------------------------
(* BLOC 3 *)

block3_cols ==
    <<"Fresca Ana", "Fusion Core", "Commercial Coco", "Super Resort", "Italy Coco Coco",
      "Virtual America", "Fun Coco Elastic", "Fun Coco Fun Noel", "Right">>

build_block3(row2, cols) ==
    <<<<"BLOC 3", None>>>>
    \o [j \in 1..Len(cols) |->
            <<"Table2_" \o cols[j], IF row2 = NoRow THEN NaN ELSE Get(row2, cols[j], NaN)>>]

-----------------------------------------------------------------------------
(* main() *)

\* the raw identifiers of the Noel column
NoelValues ==
    {NaN, Str(<<" ">>), Str(<<"A", "_", "1">>), Str(<<"A", "_", "2">>), Str(<<" ", "B">>)}

\* the tables read_excel can return: at most MaxRows rows with a Noel column
Tables == UNION {[1..n -> [Noel : NoelValues]] : n \in 0..MaxRows}

SplitIdle == sp_pc = "idle" /\ sp_val = NaN /\ sp_out = <<None, None>>
BlockIdle ==
    bk_pc = "idle" /\ bk_row1 = NoRow /\ bk_row2 = NoRow /\ bk_out = <<>> /\ bk_scan = <<>>

StatusIdle ==
    /\ st_pc = "idle" /\ st_df = <<>> /\ st_clock = <<>>
    /\ st_status = <<>> /\ st_inactive = <<>>

CoreIdle == ca_pc = "idle" /\ ca_row1 = NoRow /\ ca_row2 = NoRow /\ ca_out = <<>>

MainIdle ==
    /\ pc = "idle"
    /\ df_t1 = <<>> /\ df_t2 = <<>>
    /\ all_noels = <<>> /\ second_map = <<>>
    /\ k = 0 /\ sub_t1 = <<>> /\ sub_t2 = <<>>
    /\ max_count = 0 /\ is_many_to_many = FALSE /\ i = 0
    /\ comparison_rows = <<>> /\ pairs = <<>>

Init ==
    /\ pc = "start"
    /\ df_t1 \in Tables
    /\ df_t2 \in Tables
    /\ all_noels = <<>> /\ second_map = <<>>
    /\ k = 0 /\ sub_t1 = <<>> /\ sub_t2 = <<>>
    /\ max_count = 0 /\ is_many_to_many = FALSE /\ i = 0
    /\ comparison_rows = <<>> /\ pairs = <<>>
    /\ SplitIdle /\ BlockIdle /\ StatusIdle /\ CoreIdle

\* a row with the columns NoelFirst and NoelSecond added
WithNoelParts(row) ==
    [c \in DOMAIN row \cup {"NoelFirst", "NoelSecond"} |->
        IF c = "NoelFirst" THEN split_noel(row["Noel"])[1]
        ELSE IF c = "NoelSecond" THEN split_noel(row["Noel"])[2]
        ELSE row[c]]

\* a row with the column Status added
WithStatus(row, now) ==
    [c \in DOMAIN row \cup {"Status"} |->
        IF c = "Status" THEN StatusVal(get_activity_status(row, now)) ELSE row[c]]

\* Parse Noel => NoelFirst, NoelSecond.  zip(*...) of an empty column yields
\* nothing, and unpacking it into two columns raises ValueError.
ParseNoel ==
    /\ pc = "start"
    /\ IF Len(df_t1) = 0
       THEN pc' = "error" /\ UNCHANGED <<df_t1, df_t2>>
       ELSE /\ df_t1' = [r \in 1..Len(df_t1) |-> WithNoelParts(df_t1[r])]
            /\ IF Len(df_t2) = 0
               THEN pc' = "error" /\ UNCHANGED df_t2
               ELSE /\ df_t2' = [r \in 1..Len(df_t2) |-> WithNoelParts(df_t2[r])]
                    /\ pc' = "parsed"
    /\ UNCHANGED <<all_noels, second_map, k, sub_t1, sub_t2, max_count,
                   is_many_to_many, i, comparison_rows, pairs>>
    /\ UNCHANGED <<splitVars, blockVars, statusVars, coreVars>>

\* the readings of a clock read n times: it never runs backwards, and between
\* two instants it moves on after some reading
ClockReadings(n) ==
    UNION {{[r \in 1..n |-> IF r <= tick THEN early ELSE late] :
                tick \in 0..n, late \in {t \in Times : t >= early}} : early \in Times}

\* Mark status: the clock is read once per row, Table1 first
MarkStatus ==
    /\ pc = "parsed"
    /\ \E clock \in ClockReadings(Len(df_t1) + Len(df_t2)) :
          /\ df_t1' = [r \in 1..Len(df_t1) |-> WithStatus(df_t1[r], clock[r])]
          /\ df_t2' = [r \in 1..Len(df_t2) |-> WithStatus(df_t2[r], clock[Len(df_t1) + r])]
    /\ pc' = "status"
    /\ UNCHANGED <<all_noels, second_map, k, sub_t1, sub_t2, max_count,
                   is_many_to_many, i, comparison_rows, pairs>>
    /\ UNCHANGED <<splitVars, blockVars, statusVars, coreVars>>

\* all_noels, second_map and the empty output lists
BuildKeys ==
    /\ pc = "status"
    /\ all_noels' = sorted(NoelFirstSet(df_t1) \cup NoelFirstSet(df_t2))
    /\ second_map' = SecondMap(df_t2)
    /\ comparison_rows' = <<>>
    /\ pairs' = <<>>
    /\ pc' = "loop"
    /\ UNCHANGED <<df_t1, df_t2, k, sub_t1, sub_t2, max_count, is_many_to_many, i>>
    /\ UNCHANGED <<splitVars, blockVars, statusVars, coreVars>>

\* for noel_first in all_noels: the head of the loop body
EnterGroup ==
    /\ pc = "loop"
    /\ i = max_count
    /\ k < Len(all_noels)
    /\ k' = k + 1
    /\ sub_t1' = SubTable(df_t1, all_noels[k + 1])
    /\ sub_t2' = SubTable(df_t2, all_noels[k + 1])
    /\ max_count' = Max(Len(sub_t1'), Len(sub_t2'))
    /\ is_many_to_many' = IsManyToMany(second_map, all_noels[k + 1])
    /\ i' = 0
    /\ UNCHANGED <<pc, df_t1, df_t2, all_noels, second_map, comparison_rows, pairs>>
    /\ UNCHANGED <<splitVars, blockVars, statusVars, coreVars>>

\* RowAt that never moves past the first row of the group
RowAtStuck(sub, n) == IF n < Len(sub) THEN sub[1] ELSE 0

\* sub.loc[i] if i < len(sub) else None, as a source row number (0 for None)
RowAt(sub, n) == IF n < Len(sub) THEN sub[n + 1] ELSE 0

\* the row of df with that number
RowOf(df, r) == IF r = 0 THEN NoRow ELSE df[r]

\* {**b1, **b2, **b3}
CombinedRow(row1, row2, many) ==
    DictMerge(DictMerge(build_block1(row1, row2, many), build_block2(row1, row2)),
              build_block3(row2, block3_cols))

\* for i in range(max_count): one pass of the inner loop
EmitRow ==
    /\ pc = "loop"
    /\ i < max_count
    /\ comparison_rows' =
          Append(comparison_rows,
                 CombinedRow(RowOf(df_t1, RowAt(sub_t1, i)), RowOf(df_t2, RowAt(sub_t2, i)),
                             is_many_to_many))
    /\ pairs' = Append(pairs, [noel_first |-> all_noels[k], i |-> i,
                               row1 |-> RowAt(sub_t1, i), row2 |-> RowAt(sub_t2, i),
                               many |-> is_many_to_many])
    /\ i' = i + 1
    /\ UNCHANGED <<pc, df_t1, df_t2, all_noels, second_map, k, sub_t1, sub_t2,
                   max_count, is_many_to_many>>
    /\ UNCHANGED <<splitVars, blockVars, statusVars, coreVars>>

\* the loop over all_noels is exhausted
ExitLoop ==
    /\ pc = "loop"
    /\ i = max_count
    /\ k = Len(all_noels)
    /\ pc' = "done"
    /\ UNCHANGED <<df_t1, df_t2, all_noels, second_map, k, sub_t1, sub_t2, max_count,
                   is_many_to_many, i, comparison_rows, pairs>>
    /\ UNCHANGED <<splitVars, blockVars, statusVars, coreVars>>

Next == ParseNoel \/ MarkStatus \/ BuildKeys \/ EnterGroup \/ EmitRow \/ ExitLoop

Spec == Init /\ [][Next]_vars

-----------------------------------------------------------------------------
(* split_noel alone *)

SplitOnlyInit == SplitInit /\ MainIdle /\ BlockIdle /\ StatusIdle /\ CoreIdle

SplitNext == SplitCall /\ UNCHANGED <<mainVars, blockVars, statusVars, coreVars>>

SpecSplit == SplitOnlyInit /\ [][SplitNext]_vars

-----------------------------------------------------------------------------
(* Properties of the main loop *)

\* the primary keys present in either source
KeysPresent == NoelFirstSet(df_t1) \cup NoelFirstSet(df_t2)

\* the numbers of the records of df with primary key key
RecordsWithKey(df, key) == {r \in 1..Len(df) : df[r]["NoelFirst"] = key}

\* the primary key an output row shows: that of the raw identifier of a present side
RowKey(row) ==
    IF notna(DictGet(row, "Table1_Noel"))
    THEN split_noel(DictGet(row, "Table1_Noel"))[1]
    ELSE split_noel(DictGet(row, "Table2_Noel"))[1]

\* the positions of the output rows of primary key key
RowsOfGroup(key) == {j \in 1..Len(comparison_rows) : RowKey(comparison_rows[j]) = key}

RECURSIVE SumOver(_, _)
SumOver(S, f) ==
    IF S = {} THEN 0
    ELSE LET x == CHOOSE y \in S : TRUE IN f[x] + SumOver(S \ {x}, f)

\* max(nA, nB) of every key
GroupSize ==
    [key \in KeysPresent |->
        IF Cardinality(RecordsWithKey(df_t1, key)) >= Cardinality(RecordsWithKey(df_t2, key))
        THEN Cardinality(RecordsWithKey(df_t1, key))
        ELSE Cardinality(RecordsWithKey(df_t2, key))]

\* C1 Pairing completeness: when the main loop has finished, every primary key
\* with nA records in Table1 and nB records in Table2 has exactly max(nA, nB)
\* output rows, and the output has as many rows as the sum of max(nA, nB) over
\* the keys present in either table.
C1_PairingCompleteness ==
    pc = "done" =>
        /\ \A key \in KeysPresent : Cardinality(RowsOfGroup(key)) = GroupSize[key]
        /\ Len(comparison_rows) = SumOver(KeysPresent, GroupSize)

\* the loop finished on two keys, one of them with two records on one side and one on the other
C1_Witness ==
    /\ pc = "done"
    /\ Cardinality(KeysPresent) >= 2
    /\ \E key \in KeysPresent :
          /\ Cardinality(RecordsWithKey(df_t1, key)) = 2
          /\ Cardinality(RecordsWithKey(df_t2, key)) = 1

\* C2 Coverage: when the main loop has finished, every record of Table1 and
\* every record of Table2 with a non-null primary key is the side of exactly
\* one output row, and that row shows the record's raw identifier.
C2_Coverage ==
    pc = "done" =>
        /\ Len(pairs) = Len(comparison_rows)
        /\ \A r \in 1..Len(df_t1) : notna(df_t1[r]["NoelFirst"]) =>
              /\ Cardinality({j \in 1..Len(pairs) : pairs[j].row1 = r}) = 1
              /\ \A j \in 1..Len(pairs) : pairs[j].row1 = r =>
                    DictGet(comparison_rows[j], "Table1_Noel") = df_t1[r]["Noel"]
        /\ \A r \in 1..Len(df_t2) : notna(df_t2[r]["NoelFirst"]) =>
              /\ Cardinality({j \in 1..Len(pairs) : pairs[j].row2 = r}) = 1
              /\ \A j \in 1..Len(pairs) : pairs[j].row2 = r =>
                    DictGet(comparison_rows[j], "Table2_Noel") = df_t2[r]["Noel"]

\* the loop finished on tables of two keyed records each, with different keys in Table2
C2_Witness ==
    /\ pc = "done"
    /\ Len(df_t1) = 2 /\ Len(df_t2) = 2
    /\ \A r \in 1..2 : notna(df_t1[r]["NoelFirst"]) /\ notna(df_t2[r]["NoelFirst"])
    /\ df_t2[1]["NoelFirst"] # df_t2[2]["NoelFirst"]

\* the n-th smallest (from 0) element of a set of row numbers
NthOf(S, n) == CHOOSE r \in S : Cardinality({q \in S : q < r}) = n

\* the record a pair must hold on one side: the i-th of the key in source order, or none
ExpectedSide(df, key, n) ==
    IF n < Cardinality(RecordsWithKey(df, key)) THEN NthOf(RecordsWithKey(df, key), n) ELSE 0

\* C3 Positional pairing: pair i of a key group has on side A the i-th record of
\* the key in Table1's row order if there is one and nothing otherwise, the same
\* on side B, and never nothing on both sides.
C3_PositionalPairing ==
    \A j \in 1..Len(pairs) :
        /\ pairs[j].row1 = ExpectedSide(df_t1, pairs[j].noel_first, pairs[j].i)
        /\ pairs[j].row2 = ExpectedSide(df_t2, pairs[j].noel_first, pairs[j].i)
        /\ ~(pairs[j].row1 = 0 /\ pairs[j].row2 = 0)
        /\ DictGet(comparison_rows[j], "Table1_Noel") =
              (IF pairs[j].row1 = 0 THEN NaN ELSE df_t1[pairs[j].row1]["Noel"])
        /\ DictGet(comparison_rows[j], "Table2_Noel") =
              (IF pairs[j].row2 = 0 THEN NaN ELSE df_t2[pairs[j].row2]["Noel"])

\* a group of two Table1 records with different raw identifiers and one Table2
\* record has been paired: the second pair has no side B
C3_Witness ==
    \E j \in 1..Len(pairs) :
        /\ pairs[j].i = 1 /\ pairs[j].row1 # 0 /\ pairs[j].row2 = 0
        /\ df_t1[pairs[j].row1]["Noel"] # df_t1[ExpectedSide(df_t1, pairs[j].noel_first, 0)]["Noel"]

\* the order of two output rows: by primary key, then by pair index
RowBefore(a, b) ==
    \/ StrLess(RowKey(comparison_rows[a]).s, RowKey(comparison_rows[b]).s)
    \/ /\ RowKey(comparison_rows[a]) = RowKey(comparison_rows[b])
       /\ pairs[a].i < pairs[b].i

OutputOrdered ==
    \A a, b \in 1..Len(comparison_rows) : a < b <=> RowBefore(a, b)

AppendOnly ==
    \/ comparison_rows' = comparison_rows
    \/ /\ Len(comparison_rows') = Len(comparison_rows) + 1
       /\ SubSeq(comparison_rows', 1, Len(comparison_rows)) = comparison_rows

\* C4 Output ordering: a step leaves the output as it is or appends one row to
\* it, and in the final output row a comes before row b exactly when a's primary
\* key is lexically smaller, or the keys are equal and a's pair index is smaller.
C4_OutputOrdering == [][AppendOnly]_vars /\ [](pc = "done" => OutputOrdered)

\* the loop finished with three key groups, one of them of two rows, from tables
\* whose rows are not in key order
C4_Witness ==
    /\ pc = "done"
    /\ Len(all_noels) = 3
    /\ Len(comparison_rows) = 4
    /\ StrLess(df_t1[2]["NoelFirst"].s, df_t1[1]["NoelFirst"].s)

\* the distinct SecondaryKey values of the Table2 records of a key
DistinctSeconds(key) ==
    {df_t2[r]["NoelSecond"] : r \in {q \in RecordsWithKey(df_t2, key) : notna(df_t2[q]["NoelSecond"])}}

\* C5 Ambiguity flag: a key group is flagged many-to-many if and only if its
\* Table2 records carry more than one distinct SecondaryKey value.
C5_AmbiguityFlag ==
    \A j \in 1..Len(pairs) :
        pairs[j].many <=> Cardinality(DistinctSeconds(pairs[j].noel_first)) > 1

\* the presence comment of a pair
PresenceComment(p) ==
    IF p.row1 = 0 THEN "missing in Table1"
    ELSE IF p.row2 = 0 THEN "missing in Table2"
    ELSE "one-one"

\* C6 Many-to-many propagation: every output row of a group flagged many-to-many
\* has Comment2_B1 = "many-to-many", whichever sides are present; every row of a
\* group that is not flagged has the presence comment of its pair.
C6_ManyToManyPropagation ==
    \A j \in 1..Len(pairs) :
        /\ pairs[j].many = IsManyToMany(second_map, pairs[j].noel_first)
        /\ DictGet(comparison_rows[j], "Comment2_B1") =
              (IF pairs[j].many THEN "many-to-many" ELSE PresenceComment(pairs[j]))

\* a flagged group has produced a row without side A and a row with both sides,
\* and a group that is not flagged a row without side B
C6_Witness ==
    /\ \E j \in 1..Len(pairs) : pairs[j].many /\ pairs[j].row1 = 0
    /\ \E j \in 1..Len(pairs) : pairs[j].many /\ pairs[j].row1 # 0 /\ pairs[j].row2 # 0
    /\ \E j \in 1..Len(pairs) : ~pairs[j].many /\ pairs[j].row2 = 0

\* a raw identifier that is null or empty (nothing but blanks)
NullOrEmpty(val) == isna(val) \/ Strip(PyStr(val)) = <<>>

\* no output row has the record on its side, and its key is in no group
Excluded(df, r, side) ==
    /\ df[r]["NoelFirst"] = None
    /\ df[r]["NoelSecond"] = None
    /\ \A j \in 1..Len(pairs) : pairs[j][side] # r

\* C9 Null-key exclusion: a record whose raw identifier is null or empty has a
\* null PrimaryKey and no SecondaryKey and is the side of no output row.
C9_NullKeyExclusion ==
    pc \in {"parsed", "status", "loop", "done"} =>
        /\ \A r \in 1..Len(df_t1) : NullOrEmpty(df_t1[r]["Noel"]) => Excluded(df_t1, r, "row1")
        /\ \A r \in 1..Len(df_t2) : NullOrEmpty(df_t2[r]["Noel"]) => Excluded(df_t2, r, "row2")

-----------------------------------------------------------------------------
(* build_block2 alone *)

\* the values of a compared cell
BlockValues == {NaN, Str(<<"x">>), Str(<<"x", " ">>), IntVal(1), Str(<<"1">>), FloatVal(1)}

\* the rows of one key group: a Noel and the first NumSharedCols - 1 columns after it
BlockRows ==
    {row \in [{shared_cols[j] : j \in 1..NumSharedCols} -> BlockValues \cup {Str(<<"A">>), Str(<<"A", "_", "1">>)}] :
        /\ row["Noel"] \in {Str(<<"A">>), Str(<<"A", "_", "1">>)}
        /\ \A j \in 2..NumSharedCols : row[shared_cols[j]] \in BlockValues}

BlockInit ==
    /\ bk_pc = "call"
    /\ bk_row1 \in BlockRows \cup {NoRow}
    /\ bk_row2 \in BlockRows \cup {NoRow}
    /\ ~(bk_row1 = NoRow /\ bk_row2 = NoRow)
    /\ bk_out = <<>>
    /\ bk_scan = <<>>

\* one call of build_block2; bk_scan records the column scan when it runs
BlockCall ==
    /\ bk_pc = "call"
    /\ bk_out' = build_block2(bk_row1, bk_row2)
    /\ bk_scan' = IF isna(Block2Val(bk_row1, "Noel")) \/ isna(Block2Val(bk_row2, "Noel"))
                  THEN <<>>
                  ELSE ColumnScan(bk_row1, bk_row2)
    /\ bk_pc' = "returned"
    /\ UNCHANGED <<bk_row1, bk_row2>>

BlockOnlyInit == BlockInit /\ MainIdle /\ SplitIdle /\ StatusIdle /\ CoreIdle

BlockNext == BlockCall /\ UNCHANGED <<mainVars, splitVars, statusVars, coreVars>>

SpecBlock == BlockOnlyInit /\ [][BlockNext]_vars

-----------------------------------------------------------------------------
(* The status classifiers applied to the rows of one table: df.apply calls the
   classifier once per row, in order, and each call reads the clock itself *)

DaytonaValues ==
    {NaN, Str(<<"C", "l", "o", "s", "e", "d">>), Str(<<"c", "l", "o", "s", "e">>),
     Str(<<"o", "p", "e", "n">>), IntVal(1)}

ElasticValues ==
    {NaN, DateVal(1), DateVal(2), Str(<<"x">>), Str(<<"1", "9", "7", "0">>), IntVal(1)}

StatusTables ==
    UNION {[1..n -> [Daytona : DaytonaValues, Elastic_Daytona : ElasticValues]] : n \in 0..MaxRows}

\* the row of a table as the dict the classifiers read
StatusRow(r) == [c \in {"Daytona", "Elastic Daytona"} |->
                    IF c = "Daytona" THEN r.Daytona ELSE r.Elastic_Daytona]

StatusInit ==
    /\ st_pc = "apply"
    /\ st_df \in StatusTables
    /\ st_clock = <<>>
    /\ st_status = <<>>
    /\ st_inactive = <<>>

\* one row of df.apply: the clock has not gone back since the row before
ApplyStatus ==
    /\ st_pc = "apply"
    /\ Len(st_status) < Len(st_df)
    /\ \E now \in Times :
        /\ st_clock # <<>> => now >= st_clock[Len(st_clock)]
        /\ st_clock' = Append(st_clock, now)
        /\ st_status' = Append(st_status,
               get_activity_status(StatusRow(st_df[Len(st_status) + 1]), now))
        /\ st_inactive' = Append(st_inactive,
               is_inactive(Get(StatusRow(st_df[Len(st_status) + 1]), "Daytona", Str(<<>>)),
                           Get(StatusRow(st_df[Len(st_status) + 1]), "Elastic Daytona", Str(<<>>)),
                           now))
    /\ UNCHANGED <<st_pc, st_df>>

\* the Status column is complete
StatusDone ==
    /\ st_pc = "apply"
    /\ Len(st_status) = Len(st_df)
    /\ st_pc' = "done"
    /\ UNCHANGED <<st_df, st_clock, st_status, st_inactive>>

StatusOnlyInit == StatusInit /\ MainIdle /\ SplitIdle /\ BlockIdle /\ CoreIdle

StatusNext ==
    \/ ApplyStatus /\ UNCHANGED <<mainVars, splitVars, blockVars, coreVars>>
    \/ StatusDone /\ UNCHANGED <<mainVars, splitVars, blockVars, coreVars>>

SpecStatus == StatusOnlyInit /\ [][StatusNext]_vars

-----------------------------------------------------------------------------
(* Properties of build_block2 *)

\* the trimmed string form of a present value: what is left of str(x) between
\* its first and its last character that is not a blank
TrimmedForm(x) ==
    LET s == PyStr(x)
        inked == {j \in 1..Len(s) : s[j] # " "}
    IN  IF inked = {} THEN <<>>
        ELSE SubSeq(s, CHOOSE a \in inked : \A b \in inked : a <= b,
                       CHOOSE a \in inked : \A b \in inked : a >= b)

\* the outcome of a field as the specification defines it
SpecOutcome(v1, v2) ==
    IF isna(v1) /\ isna(v2) THEN "BothMissing"
    ELSE IF isna(v1) THEN "MissingInA"
    ELSE IF isna(v2) THEN "MissingInB"
    ELSE IF TrimmedForm(v1) = TrimmedForm(v2) THEN "Match"
    ELSE "Mismatch"

\* the columns of BLOC 2 after the identity column
ComparedCols == {shared_cols[j] : j \in 2..Len(shared_cols)}

\* the outcome of column c in a built block
OutcomeIn(b2, c) == SpecOutcome(DictGet(b2, "Table1_" \o c), DictGet(b2, "Table2_" \o c))

\* C7 Field outcome classification: for every column the scan compares, the
\* branch taken reports MissingInA (MissingInB) exactly when only the Table1
\* (Table2) value is missing and Mismatch exactly when both are present and
\* their trimmed string forms differ; it reports no difference exactly when both
\* are missing (BothMissing) or both are present with equal trimmed string forms
\* (Match).
C7_FieldOutcome ==
    bk_pc = "returned" =>
        \A j \in 1..Len(bk_scan) :
            LET o == OutcomeIn(bk_out, bk_scan[j].col) IN
            /\ bk_scan[j].col = shared_cols[j + 1]
            /\ bk_scan[j].outcome = (IF o \in {"BothMissing", "Match"} THEN "NoDiff" ELSE o)
            /\ (bk_scan[j].entry = <<>>) <=> (o \in {"BothMissing", "Match"})

\* a scan met a Match of values that differ before trimming, a Mismatch, a value
\* missing on one side and a column missing on both
C7_Witness ==
    /\ bk_pc = "returned"
    /\ \E j \in 1..Len(bk_scan) :
          /\ OutcomeIn(bk_out, bk_scan[j].col) = "Match"
          /\ DictGet(bk_out, "Table1_" \o bk_scan[j].col) # DictGet(bk_out, "Table2_" \o bk_scan[j].col)
    /\ \E j \in 1..Len(bk_scan) : OutcomeIn(bk_out, bk_scan[j].col) \in {"Mismatch", "MissingInA"}
    /\ \E j \in 1..Len(bk_scan) : OutcomeIn(bk_out, bk_scan[j].col) = "BothMissing"

\* no column after Noel is a Mismatch or missing on one side
NoOffendingField(b2) ==
    \A c \in ComparedCols : OutcomeIn(b2, c) \notin {"Mismatch", "MissingInA", "MissingInB"}

\* C8 as stated: for every pair, Comment2_B2 is the MATCH label if and only if
\* no column other than Noel is a Mismatch, MissingInA or MissingInB.
C8_Original ==
    bk_pc = "returned" =>
        (DictGet(bk_out, "Comment2_B2") = "shared dimensions MATCH" <=> NoOffendingField(bk_out))

\* C8 Block aggregate consistency, amended: for every pair with Noel present on
\* both sides, Comment2_B2 is the MATCH label if and only if no column other
\* than Noel is a Mismatch, MissingInA or MissingInB; for a pair with Noel
\* missing on a side, Comment2_B2 is "N/A".
C8_BlockAggregate ==
    bk_pc = "returned" =>
        IF notna(DictGet(bk_out, "Table1_Noel")) /\ notna(DictGet(bk_out, "Table2_Noel"))
        THEN DictGet(bk_out, "Comment2_B2") = "shared dimensions MATCH" <=> NoOffendingField(bk_out)
        ELSE DictGet(bk_out, "Comment2_B2") = "N/A"

\* a pair with both sides whose only difference is a value missing in Table2
C8_Witness ==
    /\ bk_pc = "returned"
    /\ bk_row1 # NoRow /\ bk_row2 # NoRow
    /\ \E c \in ComparedCols : OutcomeIn(bk_out, c) = "MissingInB"
    /\ \A c \in ComparedCols : OutcomeIn(bk_out, c) \in {"MissingInB", "Match", "BothMissing"}

-----------------------------------------------------------------------------
(* Properties of split_noel *)

\* C10 Key split: for a non-null raw identifier, split_noel trims the blanks
\* around it; if the trimmed text has a "_", PrimaryKey is what stands before
\* the first "_" and SecondaryKey all that follows it, as text; otherwise
\* PrimaryKey is the trimmed text and SecondaryKey is absent.
C10_KeySplit ==
    (sp_pc = "returned" /\ notna(sp_val)) =>
        LET s == TrimmedForm(sp_val) IN
        IF \E j \in 1..Len(s) : s[j] = "_"
        THEN \E j \in 1..Len(s) :
                /\ s[j] = "_"
                /\ \A h \in 1..(j - 1) : s[h] # "_"
                /\ sp_out[1] = Str([h \in 1..(j - 1) |-> s[h]])
                /\ sp_out[2] = Str([h \in 1..(Len(s) - j) |-> s[j + h]])
        ELSE sp_out = <<Str(s), None>>

\* a raw identifier with a blank in front and two separators has been split, and
\* its SecondaryKey begins with a zero
C10_Witness ==
    /\ sp_pc = "returned"
    /\ sp_val.t = "str"
    /\ Len(sp_val.s) = 4
    /\ sp_val.s[1] = " "
    /\ Cardinality({j \in 1..4 : sp_val.s[j] = "_"}) = 2
    /\ sp_out[2] = Str(<<"0", "_">>)

-----------------------------------------------------------------------------
(* BLOC A of coco9, built for one pair of rows of tables that both have the
   first NumSharedCols core columns *)

core_columns ==
    <<"Noel", "Daytona", "No Thing", "Pizza", "Pizza No Thing", "Pizza Coco Daytona",
      "Sun Daytona", "Elastic Daytona", "Hero Rome", "Coco Coco Opa Noel",
      "Coco Coco Opa Elastic Noel", "Land">>

\* core_t1 and core_t2: the core columns the table has
core_t1 == [j \in 1..NumSharedCols |-> core_columns[j]]
core_t2 == [j \in 1..NumSharedCols |-> core_columns[j]]

\* row[c] if (row is not None and c in row) else np.nan
BlockAVal(row, c) == IF row # NoRow /\ c \in DOMAIN row THEN row[c] ELSE NaN

\* check_missing_core(blockA_dict, t1_core, t2_core)
check_missing_core(blockA_dict, t1_core, t2_core) ==
    <<SelectSeq(t1_core, LAMBDA c : isna(DictGet(blockA_dict, "Table1_" \o c))),
      SelectSeq(t2_core, LAMBDA c : isna(DictGet(blockA_dict, "Table2_" \o c)))>>

\* has_mismatch(block_dict, t1_list, t2_list)
has_mismatch(block_dict, t1_list, t2_list) ==
    SelectSeq(t1_list, LAMBDA c :
        /\ \E j \in 1..Len(t2_list) : t2_list[j] = c
        /\ notna(DictGet(block_dict, "Table1_" \o c))
        /\ notna(DictGet(block_dict, "Table2_" \o c))
        /\ Strip(PyStr(DictGet(block_dict, "Table1_" \o c)))
              # Strip(PyStr(DictGet(block_dict, "Table2_" \o c))))

\* the Table1_ and Table2_ columns of blockA
BlockAColumns(row_t1, row_t2) ==
    <<<<"BLOC A", None>>>>
    \o [j \in 1..Len(core_t1) |-> <<"Table1_" \o core_t1[j], BlockAVal(row_t1, core_t1[j])>>]
    \o [j \in 1..Len(core_t2) |-> <<"Table2_" \o core_t2[j], BlockAVal(row_t2, core_t2[j])>>]

\* blockA with its three comments
build_blockA(row_t1, row_t2) ==
    LET cols == BlockAColumns(row_t1, row_t2)
        missing == check_missing_core(cols, core_t1, core_t2)
        mismatch_core == has_mismatch(cols, core_t1, core_t2)
    IN  cols
        \o << <<"CommentA_1",
                IF missing[1] # <<>> \/ missing[2] # <<>> THEN "Missing Core Data"
                ELSE IF mismatch_core # <<>> THEN "GAP"
                ELSE "MATCH">>,
              <<"CommentA_2",
                IF missing[1] # <<>> \/ missing[2] # <<>>
                THEN "Table1 missing: " \o Join(missing[1]) \o "\n"
                     \o "Table2 missing: " \o Join(missing[2])
                ELSE "No missing in core">>,
              <<"CommentA_3",
                IF mismatch_core # <<>> THEN "Mismatched columns: " \o Join(mismatch_core)
                ELSE "No mismatch">> >>

CoreInit ==
    /\ ca_pc = "call"
    /\ ca_row1 \in BlockRows \cup {NoRow}
    /\ ca_row2 \in BlockRows \cup {NoRow}
    /\ ~(ca_row1 = NoRow /\ ca_row2 = NoRow)
    /\ ca_out = <<>>

\* BLOCK A of one pass of the inner loop
BuildBlockA ==
    /\ ca_pc = "call"
    /\ ca_out' = build_blockA(ca_row1, ca_row2)
    /\ ca_pc' = "built"
    /\ UNCHANGED <<ca_row1, ca_row2>>

CoreOnlyInit == CoreInit /\ MainIdle /\ SplitIdle /\ BlockIdle /\ StatusIdle

CoreNext == BuildBlockA /\ UNCHANGED <<mainVars, splitVars, blockVars, statusVars>>

SpecCore == CoreOnlyInit /\ [][CoreNext]_vars

-----------------------------------------------------------------------------
(* Status classification *)

\* the letters of "close", each in either case
CloseAnyCase == <<{"c", "C"}, {"l", "L"}, {"o", "O"}, {"s", "S"}, {"e", "E"}>>

\* the text form of v contains "close", whatever the case of its letters
TextHasClose(v) ==
    \E j \in 1..(Len(PyStr(v)) - 4) : \A h \in 1..5 : PyStr(v)[j + h - 1] \in CloseAnyCase[h]

\* v parses as a date strictly before the reference time
DateBefore(v, now) == ToDatetime(v).k = "ts" /\ ToDatetime(v).d < now

\* the three rules, first match wins
ExpectedStatus(r, now) ==
    IF TextHasClose(r.Daytona) THEN "Inactive"
    ELSE IF DateBefore(r.Elastic_Daytona, now) THEN "Inactive"
    ELSE "Active"

\* the date of r is equal to the reference time, absent, or unparseable
NoPastDate(r, now) ==
    \/ ToDatetime(r.Elastic_Daytona).k = "ts" /\ ToDatetime(r.Elastic_Daytona).d = now
    \/ isna(r.Elastic_Daytona)
    \/ ToDatetime(r.Elastic_Daytona).k = "raise"

C13_SameFieldsSameStatus ==
    \A j1, j2 \in 1..Len(st_status) :
        st_df[j1] = st_df[j2] => st_status[j1] = st_status[j2]

\* C19: on every record and clock reading, is_inactive of coco9 answers
\* Inactive exactly when get_activity_status of coco21 does, which is when the
\* text contains "close" in any case or the date parses strictly before the
\* reference time.
C19_SameClassifier ==
    \A j \in 1..Len(st_status) :
        /\ st_inactive[j] <=> (st_status[j] = "Inactive")
        /\ st_inactive[j] <=>
               (TextHasClose(st_df[j].Daytona) \/ DateBefore(st_df[j].Elastic_Daytona, st_clock[j]))

-----------------------------------------------------------------------------
(* The run as a whole, and one-sided keys *)

\* C12: whatever the two tables hold, an empty table included, the run never
\* enters an error state.
C12_NoFailure == pc # "error"

\* the activity comments that say nothing of a missing side: no side at all,
\* one side alone, or both sides with a status each
ActivityCommentsOfStatusesOnly ==
    {""}
    \cup {"Table1 " \o s : s \in {"Active", "Inactive"}}
    \cup {"Table2 " \o s : s \in {"Active", "Inactive"}}
    \cup {"Table1 " \o s1 \o ", Table2 " \o s2 :
              s1 \in {"Active", "Inactive"}, s2 \in {"Active", "Inactive"}}

\* C14: a primary key with one record in Table1 and none in Table2 has exactly
\* one output row; its Comment2_B1 says the record is missing in Table2, and its
\* activity comment Comment1_B1 reports Table2 as missing: it is not a comment
\* that gives statuses only or leaves Table2 out.
C14_OneSidedKey ==
    pc = "done" =>
        \A key \in KeysPresent :
            (Cardinality(RecordsWithKey(df_t1, key)) = 1 /\ RecordsWithKey(df_t2, key) = {}) =>
                /\ Cardinality(RowsOfGroup(key)) = 1
                /\ \A j \in RowsOfGroup(key) :
                    /\ DictGet(comparison_rows[j], "Comment2_B1") = "missing in Table2"
                    /\ DictGet(comparison_rows[j], "Comment1_B1") \notin ActivityCommentsOfStatusesOnly

\* the three blocks of the pair of output row j, one after the other
BlocksInOrder(j) ==
    build_block1(RowOf(df_t1, pairs[j].row1), RowOf(df_t2, pairs[j].row2), pairs[j].many)
    \o build_block2(RowOf(df_t1, pairs[j].row1), RowOf(df_t2, pairs[j].row2))
    \o build_block3(RowOf(df_t2, pairs[j].row2), block3_cols)

\* C17: every output row is the concatenation of BLOC 1, BLOC 2 and BLOC 3 of
\* its pair: it has as many columns as the three blocks together, and each
\* column stands at its place inside its own block, with the block's value.
C17_BlockAssembly ==
    \A j \in 1..Len(comparison_rows) :
        /\ Len(comparison_rows[j]) = Len(BlocksInOrder(j))
        /\ \A n \in 1..Len(BlocksInOrder(j)) :
               n <= Len(comparison_rows[j]) /\ comparison_rows[j][n] = BlocksInOrder(j)[n]

-----------------------------------------------------------------------------
(* Presence comments of BLOC 1 and BLOC 2 *)

\* C20: for every row the main loop emits, Comment1_B2 is "Missing in Table1"
\* exactly when side A of the pair is absent, "Missing in Table2" exactly when
\* side B is absent and "Both present" exactly when both sides are present; it
\* is never "No Noel in both?"; and in a group that is not many-to-many
\* Comment2_B1 names the same missing side, and is "one-one" exactly when
\* Comment1_B2 is "Both present".
C20_PresenceAgreement ==
    \A j \in 1..Len(pairs) :
        /\ DictGet(comparison_rows[j], "Comment1_B2") = "Missing in Table1" <=> pairs[j].row1 = 0
        /\ DictGet(comparison_rows[j], "Comment1_B2") = "Missing in Table2" <=> pairs[j].row2 = 0
        /\ DictGet(comparison_rows[j], "Comment1_B2") = "Both present"
               <=> (pairs[j].row1 # 0 /\ pairs[j].row2 # 0)
        /\ DictGet(comparison_rows[j], "Comment1_B2") # "No Noel in both?"
        /\ ~pairs[j].many =>
               /\ DictGet(comparison_rows[j], "Comment2_B1") = "missing in Table1"
                      <=> DictGet(comparison_rows[j], "Comment1_B2") = "Missing in Table1"
               /\ DictGet(comparison_rows[j], "Comment2_B1") = "missing in Table2"
                      <=> DictGet(comparison_rows[j], "Comment1_B2") = "Missing in Table2"
               /\ DictGet(comparison_rows[j], "Comment2_B1") = "one-one"
                      <=> DictGet(comparison_rows[j], "Comment1_B2") = "Both present"

\* the run has emitted, in groups that are not many-to-many, a row without
\* side A, a row without side B and a row with both sides
C20_Witness ==
    /\ pc = "done"
    /\ \E j \in 1..Len(pairs) : ~pairs[j].many /\ pairs[j].row1 = 0 /\ pairs[j].row2 # 0
    /\ \E j \in 1..Len(pairs) : ~pairs[j].many /\ pairs[j].row1 # 0 /\ pairs[j].row2 = 0
    /\ \E j \in 1..Len(pairs) : ~pairs[j].many /\ pairs[j].row1 # 0 /\ pairs[j].row2 # 0

-----------------------------------------------------------------------------
(* The identity gate and the GAP detail of BLOC 2 *)

\* Noel is missing on a side of the built block
NoelMissingIn(b2) == isna(DictGet(b2, "Table1_Noel")) \/ isna(DictGet(b2, "Table2_Noel"))

\* C15 Identity gate: when Noel is missing on either side of the pair,
\* Comment2_B2 and Comment3_B2 are both "N/A" and no column is compared,
\* whatever the other columns hold; when Noel is present on both sides the
\* scan runs over every column after Noel and the comments are not "N/A".
C15_IdentityGate ==
    bk_pc = "returned" =>
        IF NoelMissingIn(bk_out)
        THEN /\ DictGet(bk_out, "Comment2_B2") = "N/A"
             /\ DictGet(bk_out, "Comment3_B2") = "N/A"
             /\ bk_scan = <<>>
        ELSE /\ Len(bk_scan) = Len(shared_cols) - 1
             /\ DictGet(bk_out, "Comment2_B2") # "N/A"
             /\ DictGet(bk_out, "Comment3_B2") # "N/A"

\* a block was built for a pair without side A whose side B holds a value
\* after Noel, and for a pair without side B
C15_Witness ==
    /\ bk_pc = "returned"
    /\ bk_row1 = NoRow
    /\ \E c \in ComparedCols : notna(DictGet(bk_out, "Table2_" \o c))
    /\ DictGet(bk_out, "Comment3_B2") = "N/A"

\* the columns after Noel whose outcome in the built block is an offence, in block order
OffendingCols(b2) ==
    SelectSeq([j \in 1..(Len(shared_cols) - 1) |-> shared_cols[j + 1]],
              LAMBDA c : OutcomeIn(b2, c) \in {"MissingInA", "MissingInB", "Mismatch"})

\* what the detail says of an offending column: the side missing, or both trimmed values
OffenceText(b2, c) ==
    IF OutcomeIn(b2, c) = "MissingInA" THEN c \o " [T1 missing, T2 present]"
    ELSE IF OutcomeIn(b2, c) = "MissingInB" THEN c \o " [T1 present, T2 missing]"
    ELSE c \o " [T1=" \o ToText(TrimmedForm(DictGet(b2, "Table1_" \o c)))
           \o ", T2=" \o ToText(TrimmedForm(DictGet(b2, "Table2_" \o c))) \o "]"

\* C16 GAP detail: when Noel is present on both sides, Comment2_B2 is
\* "shared dimensions GAP" exactly when some column after Noel is MissingInA,
\* MissingInB or Mismatch, and is "shared dimensions MATCH" otherwise;
\* Comment3_B2 of a GAP is "Diff columns: " followed by those columns in block
\* order, each with the side missing or with both trimmed values; it is never
\* "Diff columns: ???".
C16_GapDetail ==
    (bk_pc = "returned" /\ ~NoelMissingIn(bk_out)) =>
        LET offending == OffendingCols(bk_out)
            c2 == DictGet(bk_out, "Comment2_B2")
            c3 == DictGet(bk_out, "Comment3_B2")
        IN  /\ c2 = "shared dimensions GAP" <=> offending # <<>>
            /\ c2 = "shared dimensions MATCH" <=> offending = <<>>
            /\ offending # <<>> =>
                   c3 = "Diff columns: "
                        \o Join([j \in 1..Len(offending) |-> OffenceText(bk_out, offending[j])])
            /\ c3 # "Diff columns: ???"

\* a GAP whose detail lists a column missing on one side and then a column of
\* differing values
C16_Witness ==
    /\ bk_pc = "returned"
    /\ ~NoelMissingIn(bk_out)
    /\ Len(OffendingCols(bk_out)) >= 2
    /\ OutcomeIn(bk_out, OffendingCols(bk_out)[1]) \in {"MissingInA", "MissingInB"}
    /\ OutcomeIn(bk_out, OffendingCols(bk_out)[2]) = "Mismatch"
    /\ DictGet(bk_out, "Comment2_B2") = "shared dimensions GAP"

-----------------------------------------------------------------------------
(* The aggregate comment of BLOC A *)

\* the core columns after the identity column
OtherCoreCols == {core_t1[j] : j \in 2..Len(core_t1)}

\* C18: when Noel is present on both sides of the pair, CommentA_1 is "GAP"
\* if some other core column is missing on exactly one side or mismatched, and
\* "MATCH" if every other core column is a Match or missing on both sides;
\* "Missing Core Data" is produced only when Noel is missing on a side.
C18_CoreAggregate ==
    ca_pc = "built" =>
        /\ (notna(DictGet(ca_out, "Table1_Noel")) /\ notna(DictGet(ca_out, "Table2_Noel"))) =>
               /\ (\E c \in OtherCoreCols :
                      OutcomeIn(ca_out, c) \in {"MissingInA", "MissingInB", "Mismatch"})
                      => DictGet(ca_out, "CommentA_1") = "GAP"
               /\ (\A c \in OtherCoreCols : OutcomeIn(ca_out, c) \in {"Match", "BothMissing"})
                      => DictGet(ca_out, "CommentA_1") = "MATCH"
        /\ DictGet(ca_out, "CommentA_1") = "Missing Core Data"
               => (isna(DictGet(ca_out, "Table1_Noel")) \/ isna(DictGet(ca_out, "Table2_Noel")))

-----------------------------------------------------------------------------
(* The parts of a split identifier put together again *)

\* C21 Key split round-trip: for every non-null raw identifier, split_noel
\* returns a PrimaryKey without "_"; when it returns a SecondaryKey,
\* PrimaryKey + "_" + SecondaryKey is the trimmed raw string, and when it
\* returns none, PrimaryKey is the trimmed raw string.  PrimaryKey is null
\* only when the raw identifier is null.
C21_SplitRoundTrip ==
    sp_pc = "returned" =>
        /\ notna(sp_val) =>
               /\ sp_out[1].t = "str"
               /\ \A j \in 1..Len(sp_out[1].s) : sp_out[1].s[j] # "_"
               /\ IF notna(sp_out[2])
                  THEN /\ sp_out[2].t = "str"
                       /\ sp_out[1].s \o <<"_">> \o sp_out[2].s = TrimmedForm(sp_val)
                  ELSE sp_out[1].s = TrimmedForm(sp_val)
        /\ isna(sp_out[1]) => isna(sp_val)

\* a raw identifier with blanks around it was split into a PrimaryKey and a
\* SecondaryKey that itself holds a separator
C21_Witness ==
    /\ sp_pc = "returned"
    /\ sp_val.t = "str"
    /\ TrimmedForm(sp_val) # sp_val.s
    /\ notna(sp_out[2])
    /\ sp_out[1] = Str(<<"A">>)
    /\ \E j \in 1..Len(sp_out[2].s) : sp_out[2].s[j] = "_"

====
